---- MODULE Spec2Model ----
(***************************************************************************)
(* Asset-Tag-Tracker (src/app.py): tag generation, bulk import, reference *)
(* lists and the dual-backend (GitHub document + local file) persistence. *)
(*                                                                         *)
(* Python strings are sequences of one-character strings, so that split,  *)
(* strip, int() and the 04d format are computed character by character.   *)
(* A record's date_created (datetime.now()) is written by the code and    *)
(* read only by the "Recent Tags" view; it is left out of the records.    *)
(***************************************************************************)
EXTENDS Integers, Sequences, FiniteSets, TLC

VARIABLES use_github, remote, localfile, session, last, faults, steps, fn

vars == <<use_github, remote, localfile, session, last, faults, steps, fn>>

(***************************************************************************)
(* Python string primitives                                                *)
(***************************************************************************)
DigitChars == <<"0", "1", "2", "3", "4", "5", "6", "7", "8", "9">>

IsDigit(c) == \E i \in 1..10 : DigitChars[i] = c

DigitVal(c) == (CHOOSE i \in 1..10 : DigitChars[i] = c) - 1

\* str.isspace() for the characters the model's inputs draw from
IsSpace(c) == c \in {" ", "\t", "\n", "\r"}

SetMin(S) == CHOOSE x \in S : \A y \in S : x <= y

SetMax(S) == CHOOSE x \in S : \A y \in S : y <= x

\* s.strip()
Strip(s) ==
    LET keep == {i \in 1..Len(s) : ~IsSpace(s[i])}
    IN  IF keep = {} THEN <<>> ELSE SubSeq(s, SetMin(keep), SetMax(keep))

\* s.split(sep) for a one-character separator: the pieces between successive
\* separators, so always one more piece than there are separators
Split(s, sep) ==
    LET at == {i \in 1..Len(s) : s[i] = sep}
        n  == Cardinality(at)
        pos(k) == IF k = 0 THEN 0
                  ELSE IF k = n + 1 THEN Len(s) + 1
                  ELSE CHOOSE p \in at : Cardinality({q \in at : q < p}) = k - 1
    IN  [k \in 1..(n + 1) |-> SubSeq(s, pos(k - 1) + 1, pos(k) - 1)]

\* sep in s
Contains(s, c) == \E i \in 1..Len(s) : s[i] = c

\* the value of a sequence of decimal digits
DigitsValue(ds) ==
    LET F[i \in 0..Len(ds)] ==
            IF i = 0 THEN 0 ELSE 10 * F[i-1] + DigitVal(ds[i])
    IN  F[Len(ds)]

\* int(s): surrounding whitespace is stripped, one sign is allowed, single
\* underscores may separate digits; anything else raises ValueError (ok = FALSE)
ParseInt(s) ==
    LET t      == Strip(s)
        signed == Len(t) > 0 /\ t[1] \in {"+", "-"}
        body   == IF signed THEN SubSeq(t, 2, Len(t)) ELSE t
        wellformed ==
            /\ Len(body) > 0
            /\ \A i \in 1..Len(body) : IsDigit(body[i]) \/ body[i] = "_"
            /\ IsDigit(body[1]) /\ IsDigit(body[Len(body)])
            /\ \A i \in 1..(Len(body) - 1) : ~(body[i] = "_" /\ body[i+1] = "_")
        mag    == DigitsValue(SelectSeq(body, IsDigit))
    IN  IF wellformed
        THEN [ok |-> TRUE, val |-> IF signed /\ t[1] = "-" THEN 0 - mag ELSE mag]
        ELSE [ok |-> FALSE, val |-> 0]

RECURSIVE Digits(_)
\* str(n) for n >= 0
Digits(n) == IF n < 10 THEN <<DigitChars[n + 1]>>
             ELSE Append(Digits(n \div 10), DigitChars[(n % 10) + 1])

RECURSIVE ZeroPad(_, _)
\* left-pad with "0" to at least w characters
ZeroPad(ds, w) == IF Len(ds) >= w THEN ds ELSE ZeroPad(<<"0">> \o ds, w)

\* f"{n:04d}": minimum width 4 including a sign, digits grow past 9999
Format04d(n) == IF n < 0 THEN <<"-">> \o ZeroPad(Digits(0 - n), 3)
                ELSE ZeroPad(Digits(n), 4)

(***************************************************************************)
(* AssetTracker.generate_asset_tag                                         *)
(***************************************************************************)
\* the records whose two codes both equal the arguments
existing_assets(country_code, manufacturer_code, assets) ==
    SelectSeq(assets, LAMBDA asset :
        /\ asset.country_code = country_code
        /\ asset.manufacturer_code = manufacturer_code)

SeqLast(q) == q[Len(q)]

\* int(tag.split('-')[-1]) for every tag that holds a '-'; ok = FALSE where
\* int() raises
parsed_suffixes(existing) ==
    {ParseInt(SeqLast(Split(existing[j].tag, "-"))) :
        j \in {k \in 1..Len(existing) : Contains(existing[k].tag, "-")}}

\* the list "numbers", as a set: only its maximum is used
numbers(existing) == {p.val : p \in {q \in parsed_suffixes(existing) : q.ok}}

\* a slip: the count of the numbers instead of their maximum
max_plus_one_count(ns) == IF ns = {} THEN 1 ELSE Cardinality(ns) + 1

max_plus_one(ns) == IF ns = {} THEN 1 ELSE SetMax(ns) + 1

next_number(existing) ==
    IF existing = <<>> THEN 1 ELSE max_plus_one(numbers(existing))

generate_asset_tag(country_code, manufacturer_code, assets) ==
    country_code \o <<"-">> \o manufacturer_code \o <<"-">>
        \o Format04d(next_number(
               existing_assets(country_code, manufacturer_code, assets)))

(***************************************************************************)
(* The generation loop of show_tag_generator                               *)
(***************************************************************************)
\* the record appended for the (i+1)-th tag of a batch
generated_asset(tag, country_code, manufacturer_code, asset_name, i) ==
    [tag |-> tag, country_code |-> country_code,
     manufacturer_code |-> manufacturer_code,
     name |-> asset_name \o <<" #">> \o Digits(i + 1)]

RECURSIVE generate_loop_stale(_, _, _, _, _, _)
\* a slip: every tag generated against the list as loaded, not current_assets
generate_loop_stale(country_code, manufacturer_code, asset_name, current_assets, i, num_tags) ==
    IF i >= num_tags THEN current_assets
    ELSE generate_loop_stale(country_code, manufacturer_code, asset_name,
            Append(current_assets,
                   generated_asset(
                       generate_asset_tag(country_code, manufacturer_code,
                           SubSeq(current_assets, 1, Len(current_assets) - i)),
                       country_code, manufacturer_code, asset_name, i)),
            i + 1, num_tags)

RECURSIVE generate_loop(_, _, _, _, _, _)
\* for i in range(num_tags): generate against current_assets, then append
generate_loop(country_code, manufacturer_code, asset_name, current_assets, i, num_tags) ==
    IF i >= num_tags THEN current_assets
    ELSE generate_loop(country_code, manufacturer_code, asset_name,
            Append(current_assets,
                   generated_asset(
                       generate_asset_tag(country_code, manufacturer_code, current_assets),
                       country_code, manufacturer_code, asset_name, i)),
            i + 1, num_tags)

(***************************************************************************)
(* import_existing_tags                                                    *)
(***************************************************************************)
\* [line.strip() for line in pasted_tags.split('\n') if line.strip()]
strip_all(raw) == [i \in 1..Len(raw) |-> Strip(raw[i])]

tag_lines(pasted_tags) ==
    SelectSeq(strip_all(Split(pasted_tags, "\n")), LAMBDA line : line # <<>>)

\* a slip: three segments or more
line_accepted_at_least(tag_line) ==
    Contains(tag_line, "-") /\ Len(Split(tag_line, "-")) >= 3

\* '-' in tag_line and len(tag_line.split('-')) == 3
line_accepted(tag_line) ==
    Contains(tag_line, "-") /\ Len(Split(tag_line, "-")) = 3

\* any(asset['tag'] == tag_line for asset in assets)
tag_exists(assets, tag_line) == \E i \in 1..Len(assets) : assets[i].tag = tag_line

asset_from_parts(tag_line, parts) ==
    [tag |-> tag_line,
     country_code |-> Strip(parts[1]),
     manufacturer_code |-> Strip(parts[2]),
     name |-> <<"Imported Asset ">> \o Strip(parts[3])]

imported_asset(tag_line) == asset_from_parts(tag_line, Split(tag_line, "-"))

\* one iteration of the loop over tag_lines; st = [assets, imported_count]
import_line(st, tag_line) ==
    IF line_accepted(tag_line) /\ ~tag_exists(st.assets, tag_line)
    THEN [assets |-> Append(st.assets, imported_asset(tag_line)),
          imported_count |-> st.imported_count + 1]
    ELSE st

RECURSIVE import_from(_, _, _)
\* the loop of import_existing_tags from line i on: the list as mutated, and
\* imported_count
import_from(st, lines, i) ==
    IF i > Len(lines) THEN st
    ELSE import_from(import_line(st, lines[i]), lines, i + 1)

import_loop(assets, pasted_tags) ==
    import_from([assets |-> assets, imported_count |-> 0], tag_lines(pasted_tags), 1)

(***************************************************************************)
(* Storage: the GitHub repository and the files under data/                *)
(***************************************************************************)
data_file == "assets.json"

manufacturers_file == "manufacturers.json"

countries_file == "countries.json"

Files == {data_file, manufacturers_file, countries_file}

\* the blob sha GitHub reports for a document: a function of its content
ShaOf(content) == <<"sha", content>>

\* repo.get_contents(filename): raises when the document is absent or the
\* request fails (transport = FALSE)
get_contents(rem, filename, transport) ==
    IF rem[filename].exists /\ transport
    THEN [ok |-> TRUE, content |-> rem[filename].content,
          sha |-> ShaOf(rem[filename].content)]
    ELSE [ok |-> FALSE, content |-> <<>>, sha |-> <<>>]

\* repo.update_file(filename, msg, content, sha): needs the current blob sha
update_file(rem, filename, data, sha, transport) ==
    IF transport /\ rem[filename].exists /\ sha = ShaOf(rem[filename].content)
    THEN [ok |-> TRUE, rem |-> [rem EXCEPT ![filename] = [exists |-> TRUE, content |-> data]]]
    ELSE [ok |-> FALSE, rem |-> rem]

\* repo.create_file(filename, msg, content): refused for an existing path
create_file(rem, filename, data, transport) ==
    IF transport /\ ~rem[filename].exists
    THEN [ok |-> TRUE, rem |-> [rem EXCEPT ![filename] = [exists |-> TRUE, content |-> data]]]
    ELSE [ok |-> FALSE, rem |-> rem]

load_data_from_github(rem, filename, transport) ==
    IF get_contents(rem, filename, transport).ok THEN rem[filename].content ELSE <<>>

GhCall(fn_name, filename, sha, ok) ==
    [fn |-> fn_name, file |-> filename, sha |-> sha, ok |-> ok]

\* what save_data_to_github returns and the requests it made, given the
\* outcome of each request it may make
github_result(filename, got, upd, cre) ==
    IF got.ok /\ upd.ok
    THEN [ok |-> TRUE, rem |-> upd.rem,
          calls |-> << GhCall("get_contents", filename, <<>>, TRUE),
                       GhCall("update_file", filename, got.sha, TRUE) >>]
    ELSE IF got.ok
    THEN [ok |-> cre.ok, rem |-> cre.rem,
          calls |-> << GhCall("get_contents", filename, <<>>, TRUE),
                       GhCall("update_file", filename, got.sha, FALSE),
                       GhCall("create_file", filename, <<>>, cre.ok) >>]
    ELSE [ok |-> cre.ok, rem |-> cre.rem,
          calls |-> << GhCall("get_contents", filename, <<>>, FALSE),
                       GhCall("create_file", filename, <<>>, cre.ok) >>]

github_write(rem, filename, data, env, got) ==
    github_result(filename, got,
                  update_file(rem, filename, data, got.sha, env.update),
                  create_file(rem, filename, data, env.create))

\* env = [read, update, create]: whether each request gets through.
\* The inner bare except catches a failed get_contents and a failed update_file
\* alike, and both fall through to create_file.
save_data_to_github(rem, filename, data, env) ==
    github_write(rem, filename, data, env, get_contents(rem, filename, env.read))

\* open(filepath, 'r') / json.load: a missing file gives [], and so does a file
\* json.load cannot parse (the except branch)
load_data_from_file(loc, filename) ==
    IF loc[filename].state = "ok" THEN loc[filename].content ELSE <<>>

\* outcome "ok": written; "open_failed": open() raised, the file is as before;
\* "write_failed": open(..., 'w') truncated the file and json.dump raised
\* part-way, leaving a file json.load cannot parse
FileOutcomes == {"ok", "open_failed", "write_failed"}

\* a slip: the file opened with 'a', so that the dump lands after what it held
save_data_to_file_append(loc, filename, data, outcome) ==
    CASE outcome = "ok" ->
            [ok |-> TRUE,
             loc |-> [loc EXCEPT ![filename] =
                        [state |-> "ok", content |-> loc[filename].content \o data]]]
      [] OTHER -> [ok |-> FALSE, loc |-> loc]

save_data_to_file(loc, filename, data, outcome) ==
    CASE outcome = "ok" ->
            [ok |-> TRUE, loc |-> [loc EXCEPT ![filename] = [state |-> "ok", content |-> data]]]
      [] outcome = "open_failed" ->
            [ok |-> FALSE, loc |-> loc]
      [] OTHER ->
            [ok |-> FALSE, loc |-> [loc EXCEPT ![filename] = [state |-> "corrupt", content |-> <<>>]]]

(***************************************************************************)
(* save_assets / save_manufacturers / save_countries                       *)
(***************************************************************************)
NoSave ==
    [called |-> FALSE, ok |-> FALSE, file |-> "", data |-> <<>>, existed |-> FALSE,
     gh_attempted |-> FALSE, gh_ok |-> FALSE,
     file_attempted |-> FALSE, file_ok |-> FALSE, calls |-> <<>>]

both_result(github, filename, data, existed, gh, fl) ==
    [called |-> TRUE, ok |-> fl.ok /\ gh.ok, file |-> filename, data |-> data,
     existed |-> existed,
     gh_attempted |-> github, gh_ok |-> github /\ gh.ok,
     file_attempted |-> TRUE, file_ok |-> fl.ok,
     calls |-> gh.calls, rem |-> gh.rem, loc |-> fl.loc]

\* a slip: "success and save_data_to_file(...)", which skips the local save
\* once the remote save has failed
save_to_both_short(github, rem, loc, filename, data, env) ==
    IF github /\ ~save_data_to_github(rem, filename, data, env).ok
    THEN [both_result(github, filename, data, rem[filename].exists,
                      save_data_to_github(rem, filename, data, env),
                      [ok |-> FALSE, loc |-> loc])
            EXCEPT !.file_attempted = FALSE]
    ELSE both_result(github, filename, data, rem[filename].exists,
                     IF github THEN save_data_to_github(rem, filename, data, env)
                     ELSE [ok |-> TRUE, rem |-> rem, calls |-> <<>>],
                     save_data_to_file(loc, filename, data, env.file))

\* success = True; if use_github: success = save_data_to_github(...)
\* success = save_data_to_file(...) and success
\* env = [read, update, create, file]: the outcome of each backend request
save_to_both(github, rem, loc, filename, data, env) ==
    both_result(github, filename, data, rem[filename].exists,
                IF github THEN save_data_to_github(rem, filename, data, env)
                ELSE [ok |-> TRUE, rem |-> rem, calls |-> <<>>],
                save_data_to_file(loc, filename, data, env.file))

save_assets(github, rem, loc, assets, env) ==
    save_to_both(github, rem, loc, data_file, assets, env)

\* what last.save keeps of a save: all but the stores themselves
SaveLog(res) ==
    [called |-> res.called, ok |-> res.ok, file |-> res.file, data |-> res.data,
     existed |-> res.existed,
     gh_attempted |-> res.gh_attempted, gh_ok |-> res.gh_ok,
     file_attempted |-> res.file_attempted, file_ok |-> res.file_ok,
     calls |-> res.calls]

(***************************************************************************)
(* load_assets / load_manufacturers / load_countries                       *)
(***************************************************************************)
EGY == <<"E", "G", "Y">>

KSA == <<"K", "S", "A">>

ZE == <<"Z", "E">>

HP == <<"H", "P">>

DE == <<"D", "E">>

LE == <<"L", "E">>

AP == <<"A", "P">>

default_manufacturers ==
    << [code |-> ZE, name |-> <<"Zebra Electronics">>],
       [code |-> HP, name |-> <<"Hewlett Packard">>],
       [code |-> DE, name |-> <<"Dell">>],
       [code |-> LE, name |-> <<"Lenovo">>],
       [code |-> AP, name |-> <<"Apple">>] >>

default_countries ==
    << [code |-> EGY, name |-> <<"Egypt">>],
       [code |-> KSA, name |-> <<"Saudi Arabia">>] >>

load_data(github, rem, loc, filename, transport) ==
    IF github THEN load_data_from_github(rem, filename, transport)
    ELSE load_data_from_file(loc, filename)

load_assets(github, rem, loc, transport) ==
    load_data(github, rem, loc, data_file, transport)

load_manufacturers(github, rem, loc, transport) ==
    LET manufacturers == load_data(github, rem, loc, manufacturers_file, transport)
    IN  IF manufacturers = <<>> THEN default_manufacturers ELSE manufacturers

load_countries(github, rem, loc, transport) ==
    LET countries == load_data(github, rem, loc, countries_file, transport)
    IN  IF countries = <<>> THEN default_countries ELSE countries

\* main(), lines 281-284: the three lists every interaction starts from;
\* le = [assets, manufacturers, countries]: whether each remote read gets through
Load(le) ==
    [assets |-> load_assets(use_github, remote, localfile, le.assets),
     manufacturers |-> load_manufacturers(use_github, remote, localfile, le.manufacturers),
     countries |-> load_countries(use_github, remote, localfile, le.countries)]

(***************************************************************************)
(* Handlers: each returns what the interaction leaves behind               *)
(*   result: "success" (st.success), "error" (st.error), "none"            *)
(*   save: the save it made (NoSave when it made none)                     *)
(*   session: st.session_state's staged batch afterwards                   *)
(***************************************************************************)
NoBatch == [staged |-> FALSE, generated_tags |-> <<>>, asset_data_list |-> <<>>]

\* st.session_state.generated_tags / asset_data_list
staged_batch(asset_data_list) ==
    [staged |-> TRUE,
     generated_tags |-> [i \in 1..Len(asset_data_list) |-> asset_data_list[i].tag],
     asset_data_list |-> asset_data_list]

\* current_assets[len(assets):]
new_assets(assets, current_assets) ==
    SubSeq(current_assets, Len(assets) + 1, Len(current_assets))

\* show_tag_generator, the Generate Tags submit
generate_tags(assets, country_code, manufacturer_code, num_tags, asset_name, sess) ==
    IF asset_name = <<>>
    THEN [result |-> "error", save |-> NoSave, session |-> sess]
    ELSE [result |-> "success", save |-> NoSave,
          session |-> staged_batch(new_assets(assets,
                          generate_loop(country_code, manufacturer_code, asset_name,
                                        assets, 0, num_tags)))]

\* the branch on what a save returned
after_save(res, sess_saved, sess_failed) ==
    [result |-> IF res.ok THEN "success" ELSE "error", save |-> res,
     session |-> IF res.ok THEN sess_saved ELSE sess_failed]

\* a slip: the staged batch cleared whatever the save returned
save_all_tags_clears(github, rem, loc, assets, sess, env) ==
    after_save(save_assets(github, rem, loc, assets \o sess.asset_data_list, env),
               NoBatch, NoBatch)

\* show_tag_generator, the Save All Tags button
save_all_tags(github, rem, loc, assets, sess, env) ==
    after_save(save_assets(github, rem, loc, assets \o sess.asset_data_list, env),
               NoBatch, sess)

\* show_tag_generator, the Cancel button
cancel(sess) == [result |-> "none", save |-> NoSave, session |-> NoBatch]

\* if imported_count > 0: return tracker.save_assets(assets) else: return False
import_finish(github, rem, loc, done, sess, env) ==
    IF done.imported_count > 0
    THEN after_save(save_assets(github, rem, loc, done.assets, env), sess, sess)
    ELSE [result |-> "error", save |-> NoSave, session |-> sess]

\* the Import Tags button: "if pasted_tags:" then import_existing_tags
import_existing_tags(github, rem, loc, assets, pasted_tags, sess, env) ==
    IF pasted_tags = <<>>
    THEN [result |-> "none", save |-> NoSave, session |-> sess]
    ELSE import_finish(github, rem, loc, import_loop(assets, pasted_tags), sess, env)

LowerChars ==
    <<"a", "b", "c", "d", "e", "f", "g", "h", "i", "j", "k", "l", "m",
      "n", "o", "p", "q", "r", "s", "t", "u", "v", "w", "x", "y", "z">>

UpperChars ==
    <<"A", "B", "C", "D", "E", "F", "G", "H", "I", "J", "K", "L", "M",
      "N", "O", "P", "Q", "R", "S", "T", "U", "V", "W", "X", "Y", "Z">>

\* str.upper()
Upper(s) ==
    [i \in 1..Len(s) |->
        IF \E k \in 1..26 : LowerChars[k] = s[i]
        THEN UpperChars[CHOOSE k \in 1..26 : LowerChars[k] = s[i]]
        ELSE s[i]]

\* a slip: the new code compared with the names of the entries
code_exists_by_name(entries, code) ==
    \E i \in 1..Len(entries) : entries[i].name = code

\* any(c['code'] == new_code for c in entries)
code_exists(entries, code) == \E i \in 1..Len(entries) : entries[i].code = code

\* a slip: list.pop(), which drops the last element whatever x is
list_remove_pop(entries, entry) == SubSeq(entries, 1, Len(entries) - 1)

\* list.remove(x): drops the first element equal to x
list_remove(entries, entry) ==
    LET first == SetMin({i \in 1..Len(entries) : entries[i] = entry})
    IN  SubSeq(entries, 1, first - 1) \o SubSeq(entries, first + 1, Len(entries))

\* the entries once the new one is appended
with_entry(entries, new_code, new_name) ==
    Append(entries, [code |-> new_code, name |-> new_name])

add_code(github, rem, loc, filename, entries, new_code, new_name, sess, env) ==
    IF new_code = <<>> \/ new_name = <<>>
    THEN [result |-> "none", save |-> NoSave, session |-> sess]
    ELSE IF code_exists(entries, new_code)
    THEN [result |-> "error", save |-> NoSave, session |-> sess]
    ELSE after_save(save_to_both(github, rem, loc, filename,
                                 with_entry(entries, new_code, new_name), env),
                    sess, sess)

\* show_manage_lists, Add Country / Add Manufacturer: typed is the text as
\* typed, the code is its .upper()
add_entry(github, rem, loc, filename, entries, typed, new_name, sess, env) ==
    add_code(github, rem, loc, filename, entries, Upper(typed), new_name, sess, env)

\* show_manage_lists, a Remove button
remove_entry(github, rem, loc, filename, entries, entry, sess, env) ==
    after_save(save_to_both(github, rem, loc, filename,
                            list_remove(entries, entry), env),
               sess, sess)

(***************************************************************************)
(* Bounds and the inputs a user types or picks                             *)
(***************************************************************************)
\* the largest "Number of Tags" the model submits
MaxNumTags == 2

\* interactions that would persist a longer asset list are not taken
MaxAssets == 2

\* reference lists longer than this are not saved (defaults plus additions)
MaxExtraEntries == 1

UAE == <<"U", "A", "E">>

TagEGYZE1 == EGY \o <<"-">> \o ZE \o <<"-", "0", "0", "0", "1">>

TagEGYZE2 == EGY \o <<"-">> \o ZE \o <<"-", "0", "0", "0", "2">>

BadFormat == <<"B", "A", "D">>

\* the text pasted into the import box
PastedInputs ==
    { <<>>, BadFormat, TagEGYZE1, TagEGYZE1 \o <<"\n">> \o TagEGYZE2 }

AssetNameInputs == { <<>>, <<"Printer">> }

\* the options the model picks in the two select boxes, when the lists offer them
GenCountryInputs == { EGY, UAE }

GenManufacturerInputs == { ZE }

\* text typed as a new code (upper-cased by the form) and as a new name
CountryCodeInputs == { <<>>, <<"e", "g", "y">>, UAE }

ManufacturerCodeInputs == { <<"z", "e">>, <<"N", "E", "W">> }

EntryNameInputs == { <<>>, <<"Name">> }

\* the Remove buttons the model presses
RemoveManufacturerInputs == { <<"N", "E", "W">> }

\* backend requests that fail, over the whole session
MaxFaults == 1

\* the outcomes of the remote reads of main(). Every run of main() loads the
\* three lists; an interaction draws an outcome only for the lists its handler
\* reads. Without GitHub there is no request to fail, and the read of a
\* document that does not exist has one outcome whatever the transport does.
CanFail(filename) == use_github /\ remote[filename].exists

LoadEnvs(needA, needM, needC) ==
    [assets : IF needA /\ CanFail(data_file) THEN BOOLEAN ELSE {TRUE},
     manufacturers : IF needM /\ CanFail(manufacturers_file) THEN BOOLEAN ELSE {TRUE},
     countries : IF needC /\ CanFail(countries_file) THEN BOOLEAN ELSE {TRUE}]

\* the outcomes of the requests of one save of filename: only the requests
\* whose outcome the transport decides are drawn (update_file is not reached
\* after a failed read; create_file of an existing document is refused anyway)
SaveEnvs(filename) ==
    [read : IF CanFail(filename) THEN BOOLEAN ELSE {TRUE},
     update : IF CanFail(filename) THEN BOOLEAN ELSE {TRUE},
     create : IF use_github /\ ~remote[filename].exists THEN BOOLEAN ELSE {TRUE},
     file : FileOutcomes]

NoLoadFaults == [assets |-> TRUE, manufacturers |-> TRUE, countries |-> TRUE]

B2N(b) == IF b THEN 0 ELSE 1

LoadFaults(le) == B2N(le.assets) + B2N(le.manufacturers) + B2N(le.countries)

\* a failed read leaves update_file unreached: its outcome is not a fault
SaveFaults(env) ==
    B2N(env.read) + B2N(env.update \/ ~env.read) + B2N(env.create)
        + B2N(env.file = "ok")

\* the fault budget: the interaction is taken only if its failures fit
Spend(n) == faults + n <= MaxFaults /\ faults' = faults + n

Codes(entries) == {entries[i].code : i \in 1..Len(entries)}

\* by how many entries an add of the typed code lengthens the list it saves
Grows(entries, typed) == IF code_exists(entries, Upper(typed)) THEN 0 ELSE 1

(***************************************************************************)
(* The session: one action per interaction (a run of main())               *)
(***************************************************************************)
\* the state every specification starts the stores and the session from
FreshSession ==
    /\ remote = [f \in Files |-> [exists |-> FALSE, content |-> <<>>]]
    /\ localfile = [f \in Files |-> [state |-> "absent", content |-> <<>>]]
    /\ session = NoBatch
    /\ last = [op |-> "start", result |-> "none", save |-> SaveLog(NoSave),
               loaded |-> [assets |-> <<>>, manufacturers |-> <<>>, countries |-> <<>>],
               arg |-> <<>>]
    /\ faults = 0
    /\ steps = 0

Init ==
    /\ use_github \in BOOLEAN
    /\ FreshSession
    /\ fn = [pc |-> "none"]

\* the interaction's effect: the stores as the save left them, the staged
\* batch, and the record of what happened
Commit(op, loaded, arg, out) ==
    /\ remote' = IF out.save.called THEN out.save.rem ELSE remote
    /\ localfile' = IF out.save.called THEN out.save.loc ELSE localfile
    /\ session' = out.session
    /\ last' = [op |-> op, result |-> out.result, save |-> SaveLog(out.save),
                loaded |-> loaded, arg |-> arg]
    /\ UNCHANGED <<use_github, fn>>

GenerateWith(L, country_code, manufacturer_code, num_tags, asset_name) ==
    /\ country_code \in Codes(L.countries)
    /\ manufacturer_code \in Codes(L.manufacturers)
    /\ Commit("GenerateTags", L, <<>>,
              generate_tags(L.assets, country_code, manufacturer_code,
                            num_tags, asset_name, session))

GenerateTags ==
    \E le \in LoadEnvs(TRUE, TRUE, TRUE), country_code \in GenCountryInputs,
       manufacturer_code \in GenManufacturerInputs,
       num_tags \in 1..MaxNumTags, asset_name \in AssetNameInputs :
        /\ Spend(LoadFaults(le))
        /\ GenerateWith(Load(le), country_code, manufacturer_code, num_tags, asset_name)

SaveAllWith(L, env) ==
    /\ Len(L.assets) + Len(session.asset_data_list) <= MaxAssets
    /\ Commit("SaveAllTags", L, <<>>,
              save_all_tags(use_github, remote, localfile, L.assets, session, env))

SaveAllTags ==
    \E le \in LoadEnvs(TRUE, FALSE, FALSE), env \in SaveEnvs(data_file) :
        /\ session.staged
        /\ Spend(LoadFaults(le) + SaveFaults(env))
        /\ SaveAllWith(Load(le), env)

Cancel ==
    /\ session.staged
    /\ Spend(0)
    /\ Commit("Cancel", Load(NoLoadFaults), <<>>, cancel(session))

ImportWith(L, pasted_tags, env) ==
    /\ Len(import_loop(L.assets, pasted_tags).assets) <= MaxAssets
    /\ Commit("ImportTags", L, <<>>,
              import_existing_tags(use_github, remote, localfile, L.assets,
                                   pasted_tags, session, env))

ImportTags ==
    \E le \in LoadEnvs(TRUE, FALSE, FALSE), env \in SaveEnvs(data_file),
       pasted_tags \in PastedInputs :
        /\ Spend(LoadFaults(le) + SaveFaults(env))
        /\ ImportWith(Load(le), pasted_tags, env)

AddCountryWith(L, typed, new_name, env) ==
    /\ Len(L.countries) + Grows(L.countries, typed) <= Len(default_countries) + MaxExtraEntries
    /\ Commit("AddCountry", L, Upper(typed),
              add_entry(use_github, remote, localfile, countries_file,
                        L.countries, typed, new_name, session, env))

AddCountry ==
    \E le \in LoadEnvs(FALSE, FALSE, TRUE), env \in SaveEnvs(countries_file),
       typed \in CountryCodeInputs, new_name \in EntryNameInputs :
        /\ Spend(LoadFaults(le) + SaveFaults(env))
        /\ AddCountryWith(Load(le), typed, new_name, env)

RemoveCountryWith(L, env) ==
    \E i \in 1..Len(L.countries) :
        Commit("RemoveCountry", L, L.countries[i],
               remove_entry(use_github, remote, localfile, countries_file,
                            L.countries, L.countries[i], session, env))

RemoveCountry ==
    \E le \in LoadEnvs(FALSE, FALSE, TRUE), env \in SaveEnvs(countries_file) :
        /\ Spend(LoadFaults(le) + SaveFaults(env))
        /\ RemoveCountryWith(Load(le), env)

AddManufacturerWith(L, typed, new_name, env) ==
    /\ Len(L.manufacturers) + Grows(L.manufacturers, typed)
          <= Len(default_manufacturers) + MaxExtraEntries
    /\ Commit("AddManufacturer", L, Upper(typed),
              add_entry(use_github, remote, localfile, manufacturers_file,
                        L.manufacturers, typed, new_name, session, env))

AddManufacturer ==
    \E le \in LoadEnvs(FALSE, TRUE, FALSE), env \in SaveEnvs(manufacturers_file),
       typed \in ManufacturerCodeInputs, new_name \in EntryNameInputs :
        /\ Spend(LoadFaults(le) + SaveFaults(env))
        /\ AddManufacturerWith(Load(le), typed, new_name, env)

RemoveManufacturerWith(L, env) ==
    \E i \in 1..Len(L.manufacturers) :
        /\ L.manufacturers[i].code \in RemoveManufacturerInputs
        /\ Commit("RemoveManufacturer", L, L.manufacturers[i],
                  remove_entry(use_github, remote, localfile, manufacturers_file,
                               L.manufacturers, L.manufacturers[i], session, env))

RemoveManufacturer ==
    \E le \in LoadEnvs(FALSE, TRUE, FALSE), env \in SaveEnvs(manufacturers_file) :
        /\ Spend(LoadFaults(le) + SaveFaults(env))
        /\ RemoveManufacturerWith(Load(le), env)

\* the interactions on the asset collection
AssetInteraction ==
    \/ GenerateTags
    \/ SaveAllTags
    \/ Cancel
    \/ ImportTags

\* the interactions on the two reference lists
ListInteraction ==
    \/ AddCountry
    \/ RemoveCountry
    \/ AddManufacturer
    \/ RemoveManufacturer

\* sessions of at most MaxSteps interactions of any kind
MaxSteps == 2

Next ==
    /\ steps < MaxSteps
    /\ steps' = steps + 1
    /\ (AssetInteraction \/ ListInteraction)

Spec == Init /\ [][Next]_vars

\* sessions of any length on the asset collection alone
NextAssets == AssetInteraction /\ UNCHANGED steps

SpecAssets == Init /\ [][NextAssets]_vars

\* sessions of any length on the reference lists alone
NextLists == ListInteraction /\ UNCHANGED steps

SpecLists == Init /\ [][NextLists]_vars

(***************************************************************************)
(* generate_asset_tag and the generation loop on their own: the snapshot   *)
(* is drawn from lists of sample records, then the loop of                 *)
(* show_tag_generator runs one iteration per step                          *)
(***************************************************************************)
\* the longest snapshot drawn
MaxLen == 2

\* the largest num_tags drawn
MaxBatch == 3

Rec(tag, country_code, manufacturer_code) ==
    [tag |-> tag, country_code |-> country_code,
     manufacturer_code |-> manufacturer_code, name |-> <<"Sample">>]

Tag(country_code, manufacturer_code, suffix) ==
    country_code \o <<"-">> \o manufacturer_code \o <<"-">> \o suffix

\* well-formed tags, tags whose suffix int() rejects, suffixes int() accepts
\* though they are not four digits, a tag with no '-', a record whose tag
\* belongs to another pair, and records of other pairs
SampleRecords ==
    { Rec(Tag(EGY, ZE, <<"0", "0", "0", "1">>), EGY, ZE),
      Rec(Tag(EGY, ZE, <<"0", "0", "0", "9">>), EGY, ZE),
      Rec(Tag(EGY, ZE, <<"9", "9", "9", "9">>), EGY, ZE),
      Rec(Tag(EGY, ZE, <<"X", "1">>), EGY, ZE),
      Rec(Tag(EGY, ZE, <<>>), EGY, ZE),
      Rec(Tag(EGY, ZE, <<" ", "1", "_", "2">>), EGY, ZE),
      Rec(<<"0", "0", "4", "2">>, EGY, ZE),
      Rec(Tag(KSA, HP, <<"0", "0", "0", "5">>), EGY, ZE),
      Rec(Tag(KSA, ZE, <<"0", "0", "0", "3">>), KSA, ZE),
      Rec(Tag(EGY, HP, <<"0", "0", "0", "7">>), EGY, HP) }

RECURSIVE ListsOver(_, _)
\* the sequences over S of length at most n
ListsOver(S, n) ==
    IF n = 0 THEN { <<>> }
    ELSE ListsOver(S, n - 1)
         \cup {Append(q, x) : q \in {r \in ListsOver(S, n - 1) : Len(r) = n - 1}, x \in S}

InitGen ==
    /\ use_github = FALSE
    /\ FreshSession
    /\ \E assets \in ListsOver(SampleRecords, MaxLen),
          country_code \in {EGY, KSA}, manufacturer_code \in {ZE, HP},
          num_tags \in 1..MaxBatch :
            fn = [pc |-> "loop", country_code |-> country_code,
                  manufacturer_code |-> manufacturer_code, num_tags |-> num_tags,
                  assets |-> assets, current_assets |-> assets,
                  generated_tags |-> <<>>]

\* the loop body ran once more: the tag it generated is the appended record's
Iterated(current_assets) ==
    fn' = [fn EXCEPT !.generated_tags = Append(@, SeqLast(current_assets).tag),
                     !.current_assets = current_assets]

\* one iteration of "for i in range(num_tags)": lines 374-383
LoopStep ==
    /\ fn.pc = "loop"
    /\ Len(fn.generated_tags) < fn.num_tags
    /\ Iterated(generate_loop(fn.country_code, fn.manufacturer_code, <<"Printer">>,
                              fn.current_assets,
                              Len(fn.generated_tags), Len(fn.generated_tags) + 1))
    /\ UNCHANGED <<use_github, remote, localfile, session, last, faults, steps>>

\* the loop is over: asset_data_list = current_assets[len(assets):]
LoopEnd ==
    /\ fn.pc = "loop"
    /\ Len(fn.generated_tags) = fn.num_tags
    /\ fn' = [fn EXCEPT !.pc = "done"]
    /\ UNCHANGED <<use_github, remote, localfile, session, last, faults, steps>>

NextGen == LoopStep \/ LoopEnd

SpecGen == InitGen /\ [][NextGen]_vars

(***************************************************************************)
(* import_existing_tags' loop on its own: the list and the pasted text are *)
(* drawn, then the loop runs                                               *)
(***************************************************************************)
\* the most lines a pasted text holds
MaxLines == 2

\* lines as pasted: well-formed, padded with blanks, blank, without dashes,
\* with two and with four segments, with blanks inside
SampleLines ==
    { TagEGYZE1,
      <<" ">> \o TagEGYZE2 \o <<" ">>,
      <<" ", " ">>,
      BadFormat,
      EGY \o <<"-">> \o ZE,
      TagEGYZE1 \o <<"-", "A">>,
      EGY \o <<" ", "-", " ">> \o ZE \o <<"-", " ", "7">> }

RECURSIVE JoinLines(_)
\* "\n".join(lines)
JoinLines(lines) ==
    IF Len(lines) = 0 THEN <<>>
    ELSE IF Len(lines) = 1 THEN lines[1]
    ELSE lines[1] \o <<"\n">> \o JoinLines(Tail(lines))

ImportAssetLists ==
    ListsOver({ Rec(TagEGYZE1, EGY, ZE), Rec(TagEGYZE2, EGY, ZE) }, 1)

InitImport ==
    /\ use_github = FALSE
    /\ FreshSession
    /\ \E assets \in ImportAssetLists, lines \in ListsOver(SampleLines, MaxLines) :
            fn = [pc |-> "call", assets |-> assets, pasted_tags |-> JoinLines(lines),
                  result |-> [assets |-> <<>>, imported_count |-> 0]]

\* lines 233-255: the list as the loop leaves it, and imported_count
CallImport ==
    /\ fn.pc = "call"
    /\ fn' = [fn EXCEPT !.pc = "done",
                        !.result = import_loop(fn.assets, fn.pasted_tags)]
    /\ UNCHANGED <<use_github, remote, localfile, session, last, faults, steps>>

NextImport == CallImport

SpecImport == InitImport /\ [][NextImport]_vars

(***************************************************************************)
(* save_assets / save_manufacturers / save_countries on their own: the     *)
(* stores, the list to save and the outcome of every request are drawn,    *)
(* then one save runs                                                      *)
(***************************************************************************)
\* the list a save is handed, and the one the stores held before
NewData(filename) ==
    IF filename = data_file
    THEN << Rec(TagEGYZE1, EGY, ZE), Rec(TagEGYZE2, EGY, ZE) >>
    ELSE IF filename = manufacturers_file
    THEN Append(default_manufacturers, [code |-> <<"N", "E", "W">>, name |-> <<"Name">>])
    ELSE Append(default_countries, [code |-> UAE, name |-> <<"Name">>])

OldData(filename) ==
    IF filename = data_file THEN << Rec(TagEGYZE1, EGY, ZE) >>
    ELSE IF filename = manufacturers_file THEN default_manufacturers
    ELSE default_countries

\* every combination of request outcomes
AllSaveEnvs ==
    [read : BOOLEAN, update : BOOLEAN, create : BOOLEAN, file : FileOutcomes]

InitSave ==
    /\ use_github \in BOOLEAN
    /\ \E there \in BOOLEAN :
          remote = [f \in Files |->
                      IF use_github /\ there
                      THEN [exists |-> TRUE, content |-> OldData(f)]
                      ELSE [exists |-> FALSE, content |-> <<>>]]
    /\ \E st \in {"absent", "ok", "corrupt"} :
          localfile = [f \in Files |->
                         [state |-> st, content |-> IF st = "ok" THEN OldData(f) ELSE <<>>]]
    /\ session = NoBatch
    /\ last = [op |-> "start", result |-> "none", save |-> SaveLog(NoSave),
               loaded |-> [assets |-> <<>>, manufacturers |-> <<>>, countries |-> <<>>],
               arg |-> <<>>]
    /\ faults = 0
    /\ steps = 0
    /\ \E env \in AllSaveEnvs :
          fn = [pc |-> "call", env |-> env, filename |-> "",
                rem0 |-> remote, loc0 |-> localfile]

\* the save ran: the stores as it left them and what it returned
Saved(filename, res) ==
    /\ fn.pc = "call"
    /\ remote' = res.rem
    /\ localfile' = res.loc
    /\ last' = [last EXCEPT !.op = "save", !.save = SaveLog(res),
                            !.result = IF res.ok THEN "success" ELSE "error"]
    /\ fn' = [fn EXCEPT !.pc = "done", !.filename = filename]
    /\ UNCHANGED <<use_github, session, faults, steps>>

CallSaveAssets ==
    Saved(data_file,
          save_assets(use_github, remote, localfile, NewData(data_file), fn.env))

CallSaveManufacturers ==
    Saved(manufacturers_file,
          save_to_both(use_github, remote, localfile, manufacturers_file,
                       NewData(manufacturers_file), fn.env))

CallSaveCountries ==
    Saved(countries_file,
          save_to_both(use_github, remote, localfile, countries_file,
                       NewData(countries_file), fn.env))

NextSave == CallSaveAssets \/ CallSaveManufacturers \/ CallSaveCountries

SpecSave == InitSave /\ [][NextSave]_vars

(***************************************************************************)
(* SpecTwo: two sessions on the same stores. A run of main() reads the      *)
(* asset collection once and, when its handler saves, makes the requests of *)
(* save_assets one after the other; the other session's requests may fall   *)
(* between any two of them.                                                 *)
(***************************************************************************)
\* saves the two sessions make between them
MaxSaves == 2

Sessions == {1, 2}

\* what each session types: its asset name, the pair it picks, its pasted text
AssetNameOf(p) == IF p = 1 THEN <<"Printer">> ELSE <<"Scanner">>

TwoCountryInputs == { EGY, KSA }

TwoPastedInputs == { TagEGYZE1, TagEGYZE2 }

AllRequestsOk == [read |-> TRUE, update |-> TRUE, create |-> TRUE, file |-> "ok"]

IdleSession ==
    [pc |-> "idle", op |-> "none", loaded |-> <<>>, mem |-> <<>>, pasted |-> <<>>,
     batch |-> NoBatch, pair |-> <<>>, gen_at |-> 0, loaded_at |-> 0,
     got |-> get_contents([f \in Files |-> [exists |-> FALSE, content |-> <<>>]],
                          data_file, TRUE),
     gh_ok |-> FALSE, result |-> "none", saves |-> 0,
     wrote |-> [remote |-> 0, local |-> 0],
     fresh |-> [remote |-> FALSE, local |-> FALSE]]

InitTwo ==
    /\ use_github \in BOOLEAN
    /\ FreshSession
    /\ fn = [pc |-> "two",
             s |-> [p \in Sessions |-> IdleSession],
             version |-> [remote |-> 0, local |-> 0],
             writer |-> [remote |-> 0, local |-> 0]]

\* the number of writes the backend load_assets reads has taken
ReadVersion == IF use_github THEN fn.version.remote ELSE fn.version.local

\* the saves begun so far, by either session
SavesBegun == fn.s[1].saves + fn.s[2].saves

TwoUnchanged == UNCHANGED <<use_github, session, last, faults, steps>>

\* Generate Tags in session p: main() loads, the handler stages a batch
TwoGenerateWith(p, assets, country_code) ==
    /\ fn' = [fn EXCEPT
                !.s[p].batch =
                    generate_tags(assets, country_code, ZE, 1,
                                  AssetNameOf(p), fn.s[p].batch).session,
                !.s[p].pair = <<country_code, ZE>>,
                !.s[p].gen_at = ReadVersion]
    /\ UNCHANGED <<remote, localfile>>
    /\ TwoUnchanged

TwoGenerate(p) ==
    \E country_code \in TwoCountryInputs :
        /\ fn.s[p].pc = "idle"
        /\ SavesBegun < MaxSaves
        /\ TwoGenerateWith(p, load_assets(use_github, remote, localfile, TRUE),
                           country_code)

\* a handler that will save: the list main() loaded and the list in memory
TwoModified(p, op, assets, mem, pasted_tags) ==
    /\ fn' = [fn EXCEPT
                !.s[p].pc = IF use_github THEN "read" ELSE "file",
                !.s[p].op = op,
                !.s[p].loaded = assets,
                !.s[p].mem = mem,
                !.s[p].pasted = pasted_tags,
                !.s[p].loaded_at = ReadVersion,
                !.s[p].gh_ok = FALSE,
                !.s[p].saves = @ + 1,
                !.s[p].fresh = [remote |-> FALSE, local |-> FALSE],
                !.s[p].result = "none"]
    /\ UNCHANGED <<remote, localfile>>
    /\ TwoUnchanged

\* Save All Tags in session p, up to assets.extend(asset_data_list)
TwoSaveAllLoad(p) ==
    /\ fn.s[p].pc = "idle"
    /\ SavesBegun < MaxSaves
    /\ fn.s[p].batch.staged
    /\ TwoModified(p, "SaveAllTags",
                   load_assets(use_github, remote, localfile, TRUE),
                   load_assets(use_github, remote, localfile, TRUE)
                       \o fn.s[p].batch.asset_data_list,
                   <<>>)

TwoImportWith(p, assets, pasted_tags, done) ==
    /\ done.imported_count > 0
    /\ TwoModified(p, "ImportTags", assets, done.assets, pasted_tags)

\* Import Tags in session p, up to the call of save_assets
TwoImportLoad(p) ==
    \E pasted_tags \in TwoPastedInputs :
        /\ fn.s[p].pc = "idle"
        /\ SavesBegun < MaxSaves
        /\ TwoImportWith(p, load_assets(use_github, remote, localfile, TRUE),
                         pasted_tags,
                         import_loop(load_assets(use_github, remote, localfile, TRUE),
                                     pasted_tags))

\* save_data_to_github, its read: repo.get_contents
TwoGhRead(p) ==
    /\ fn.s[p].pc = "read"
    /\ fn' = [fn EXCEPT !.s[p].pc = "write",
                        !.s[p].got = get_contents(remote, data_file, TRUE)]
    /\ UNCHANGED <<remote, localfile>>
    /\ TwoUnchanged

TwoGhWritten(p, res) ==
    /\ remote' = res.rem
    /\ fn' = [fn EXCEPT
                !.s[p].pc = "file",
                !.s[p].gh_ok = res.ok,
                !.s[p].wrote.remote =
                    IF res.ok THEN fn.version.remote + 1 ELSE fn.s[p].wrote.remote,
                !.s[p].fresh.remote = res.ok,
                !.version.remote = IF res.ok THEN @ + 1 ELSE @,
                !.writer.remote = IF res.ok THEN p ELSE @]
    /\ UNCHANGED localfile
    /\ TwoUnchanged

\* save_data_to_github, its write: update_file with the sha read, else create_file
TwoGhWrite(p) ==
    /\ fn.s[p].pc = "write"
    /\ TwoGhWritten(p, github_write(remote, data_file, fn.s[p].mem,
                                    AllRequestsOk, fn.s[p].got))

TwoFileWritten(p, res) ==
    /\ localfile' = res.loc
    /\ fn' = [fn EXCEPT
                !.s[p].pc = "idle",
                !.s[p].result = after_save(res, NoBatch, fn.s[p].batch).result,
                !.s[p].batch =
                    IF fn.s[p].op = "SaveAllTags"
                    THEN after_save(res, NoBatch, fn.s[p].batch).session
                    ELSE fn.s[p].batch,
                !.s[p].wrote.local =
                    IF res.file_ok THEN fn.version.local + 1 ELSE fn.s[p].wrote.local,
                !.s[p].fresh.local = res.file_ok,
                !.version.local = IF res.file_ok THEN @ + 1 ELSE @,
                !.writer.local = IF res.file_ok THEN p ELSE @]
    /\ UNCHANGED remote
    /\ TwoUnchanged

\* save_data_to_file, and what save_assets returns to the handler
TwoFileWrite(p) ==
    /\ fn.s[p].pc = "file"
    /\ TwoFileWritten(p,
          both_result(use_github, data_file, fn.s[p].mem, TRUE,
                      [ok |-> ~use_github \/ fn.s[p].gh_ok, rem |-> remote,
                       calls |-> <<>>],
                      save_data_to_file(localfile, data_file, fn.s[p].mem, "ok")))

NextTwo ==
    \E p \in Sessions :
        \/ TwoGenerate(p)
        \/ TwoSaveAllLoad(p)
        \/ TwoImportLoad(p)
        \/ TwoGhRead(p)
        \/ TwoGhWrite(p)
        \/ TwoFileWrite(p)

SpecTwo == InitTwo /\ [][NextTwo]_vars

(***************************************************************************)
(* Claims C2, C3: generate_asset_tag and the batch loop (SpecGen)          *)
(***************************************************************************)
\* the positions of the records whose two codes both equal the arguments
Matching(country_code, manufacturer_code, assets) ==
    {i \in 1..Len(assets) :
        /\ assets[i].country_code = country_code
        /\ assets[i].manufacturer_code = manufacturer_code}

\* the text after the last '-' of a tag that holds one
Suffix(tag) == SeqLast(Split(tag, "-"))

\* the integers that are the suffix of a matching record's tag
SuffixInts(country_code, manufacturer_code, assets) ==
    {ParseInt(Suffix(assets[i].tag)).val :
        i \in {j \in Matching(country_code, manufacturer_code, assets) :
                 /\ Contains(assets[j].tag, "-")
                 /\ ParseInt(Suffix(assets[j].tag)).ok}}

ExpectedNumber(country_code, manufacturer_code, assets) ==
    IF SuffixInts(country_code, manufacturer_code, assets) = {} THEN 1
    ELSE 1 + SetMax(SuffixInts(country_code, manufacturer_code, assets))

AllDigits(s) == \A i \in 1..Len(s) : IsDigit(s[i])

\* tag is COUNTRY-MANUFACTURER-NNNN for the number n: digits only, padded
\* with zeros to four, never cut
IsTagFor(tag, country_code, manufacturer_code, n) ==
    /\ tag = Tag(country_code, manufacturer_code, Suffix(tag))
    /\ AllDigits(Suffix(tag))
    /\ ParseInt(Suffix(tag)) = [ok |-> TRUE, val |-> n]
    /\ Len(Suffix(tag)) >= 4
    /\ Len(Suffix(tag)) > 4 => Suffix(tag)[1] # "0"

\* the snapshot the latest tag was generated against
SnapshotOfLatest == SubSeq(fn.current_assets, 1, Len(fn.current_assets) - 1)

\* C2: the tag generate_asset_tag returns carries 1 + the largest integer
\* that int() parses from the text after the last '-' of the tags of the
\* records whose country_code and manufacturer_code both equal the arguments,
\* and 1 when no record matches or no matching tag has such a suffix; tags
\* with no '-' or with a suffix int() rejects do not count.
C2_NextIsMaxPlusOne ==
    Len(fn.generated_tags) > 0 =>
        IsTagFor(SeqLast(fn.generated_tags), fn.country_code, fn.manufacturer_code,
                 ExpectedNumber(fn.country_code, fn.manufacturer_code, SnapshotOfLatest))

\* a tag was generated past 9999 from a snapshot that also holds a matching
\* record whose suffix is not a number
C2_Witness ==
    /\ Len(fn.generated_tags) = 1
    /\ fn.generated_tags[1] = Tag(EGY, ZE, <<"1", "0", "0", "0", "0">>)
    /\ \E i \in Matching(EGY, ZE, fn.assets) : ~ParseInt(Suffix(fn.assets[i].tag)).ok

\* C3: in a batch for a pair with no record in the snapshot, each record being
\* appended before the next call, the k-th tag carries the number k, so the
\* tags of the batch are pairwise distinct.
C3_BatchCountsFromOne ==
    Matching(fn.country_code, fn.manufacturer_code, fn.assets) = {} =>
        /\ \A k \in 1..Len(fn.generated_tags) :
              IsTagFor(fn.generated_tags[k], fn.country_code, fn.manufacturer_code, k)
        /\ \A j, k \in 1..Len(fn.generated_tags) :
              j # k => fn.generated_tags[j] # fn.generated_tags[k]

\* a whole batch of at least three tags over a snapshot that holds records of
\* other pairs only
C3_Witness ==
    /\ fn.pc = "done"
    /\ Len(fn.generated_tags) >= 3
    /\ Len(fn.assets) > 0
    /\ Matching(fn.country_code, fn.manufacturer_code, fn.assets) = {}

(***************************************************************************)
(* Claim C4: import_existing_tags (SpecImport)                             *)
(***************************************************************************)
\* the non-blank lines of the pasted text, each trimmed
TrimmedLines(text) ==
    SelectSeq([i \in 1..Len(Split(text, "\n")) |-> Strip(Split(text, "\n")[i])],
              LAMBDA line : line # <<>>)

TagsOf(assets) == {assets[i].tag : i \in 1..Len(assets)}

RECURSIVE LinesToImport(_, _)
\* in input order, the lines of three '-'-segments that equal no tag in the
\* list when they are reached: seen is the tags of the list so far
LinesToImport(lines, seen) ==
    IF lines = <<>> THEN <<>>
    ELSE IF Len(Split(Head(lines), "-")) = 3 /\ Head(lines) \notin seen
    THEN <<Head(lines)>> \o LinesToImport(Tail(lines), seen \cup {Head(lines)})
    ELSE LinesToImport(Tail(lines), seen)

\* the list after the import is the list before followed by one record per
\* line of wanted, in order, and the count is their number; trimmed says
\* whether the two codes are the segments with surrounding blanks removed
ImportedAs(wanted, trimmed) ==
    /\ Len(fn.result.assets) = Len(fn.assets) + Len(wanted)
    /\ SubSeq(fn.result.assets, 1, Len(fn.assets)) = fn.assets
    /\ fn.result.imported_count = Len(wanted)
    /\ \A k \in 1..Len(wanted) :
          /\ fn.result.assets[Len(fn.assets) + k].tag = wanted[k]
          /\ fn.result.assets[Len(fn.assets) + k].country_code =
                IF trimmed THEN Strip(Split(wanted[k], "-")[1])
                ELSE Split(wanted[k], "-")[1]
          /\ fn.result.assets[Len(fn.assets) + k].manufacturer_code =
                IF trimmed THEN Strip(Split(wanted[k], "-")[2])
                ELSE Split(wanted[k], "-")[2]

\* C4 as stated: one record appended, in input order, for each non-blank
\* trimmed line of exactly three '-'-segments that equals no tag already in
\* the list; its tag is the line, its codes are segments 1 and 2; every other
\* line changes nothing; the count is the number of records appended.
C4_AsStated ==
    fn.pc = "done" =>
        ImportedAs(LinesToImport(TrimmedLines(fn.pasted_tags), TagsOf(fn.assets)), FALSE)

\* C4 amended: the same, the codes being segments 1 and 2 with the blanks
\* around them removed.
C4_ImportAppendsAccepted ==
    fn.pc = "done" =>
        ImportedAs(LinesToImport(TrimmedLines(fn.pasted_tags), TagsOf(fn.assets)), TRUE)

\* an import into a non-empty list that skipped a line equal to an existing
\* tag and appended a line with blanks around its segments
C4_Witness ==
    /\ fn.pc = "done"
    /\ Len(fn.assets) > 0
    /\ fn.result.imported_count = 1
    /\ \E i \in 1..Len(TrimmedLines(fn.pasted_tags)) :
          TrimmedLines(fn.pasted_tags)[i] \in TagsOf(fn.assets)
    /\ \E i \in 1..Len(fn.result.assets) :
          /\ fn.result.assets[i].country_code = EGY
          /\ Split(fn.result.assets[i].tag, "-")[1] # EGY

(***************************************************************************)
(* Claims C7, C8: the saves (SpecSave)                                     *)
(***************************************************************************)
\* the requests of the save that wrote, or tried to write, the document
WriteCalls(calls) ==
    SelectSeq(calls, LAMBDA c : c.fn \in {"update_file", "create_file"})

CallsOf(calls, fn_name) == SelectSeq(calls, LAMBDA c : c.fn = fn_name)

\* the remote save came back without raising
RemoteSaved ==
    /\ last.save.calls # <<>>
    /\ SeqLast(last.save.calls).fn \in {"update_file", "create_file"}
    /\ SeqLast(last.save.calls).ok

\* the local file as an attempted write with the drawn outcome leaves it
LocalWriteShows ==
    CASE fn.env.file = "ok" ->
            localfile[fn.filename] = [state |-> "ok", content |-> NewData(fn.filename)]
      [] fn.env.file = "write_failed" -> localfile[fn.filename].state = "corrupt"
      [] OTHER -> localfile[fn.filename] = fn.loc0[fn.filename]

\* C7: a save with GitHub configured attempts the remote save and the local
\* save, the local one also after the remote one failed, and succeeds exactly
\* when both did; without GitHub it attempts the local save alone and returns
\* its result.
C7_BothBackendsAttempted ==
    fn.pc = "done" =>
        /\ last.save.file_attempted
        /\ LocalWriteShows
        /\ use_github =>
              /\ last.save.calls # <<>>
              /\ last.save.calls[1].fn = "get_contents"
              /\ last.save.ok <=> (RemoteSaved /\ fn.env.file = "ok")
        /\ ~use_github =>
              /\ last.save.calls = <<>>
              /\ remote = fn.rem0
              /\ last.save.ok <=> (fn.env.file = "ok")

\* the remote save failed and the local file was written all the same
C7_Witness ==
    /\ fn.pc = "done"
    /\ use_github
    /\ ~RemoteSaved
    /\ fn.loc0[fn.filename].state = "absent"
    /\ localfile[fn.filename] = [state |-> "ok", content |-> NewData(fn.filename)]
    /\ ~last.save.ok

\* C8: save_data_to_github makes one create_file and no update_file when the
\* document does not exist; one update_file, carrying the sha its own read
\* returned, and no create_file when it exists; a write that fails is reported
\* as failure and no other write follows it.
C8_OneWritePerSave ==
    (fn.pc = "done" /\ use_github) =>
        /\ ~fn.rem0[fn.filename].exists =>
              /\ Len(CallsOf(last.save.calls, "create_file")) = 1
              /\ Len(CallsOf(last.save.calls, "update_file")) = 0
        /\ fn.rem0[fn.filename].exists =>
              /\ Len(CallsOf(last.save.calls, "update_file")) = 1
              /\ CallsOf(last.save.calls, "update_file")[1].sha
                    = ShaOf(fn.rem0[fn.filename].content)
              /\ Len(CallsOf(last.save.calls, "create_file")) = 0
        /\ Len(WriteCalls(last.save.calls)) = 1
        /\ ~WriteCalls(last.save.calls)[1].ok => ~last.save.gh_ok

(***************************************************************************)
(* Claims C5, C6: the reference lists (SpecLists)                          *)
(***************************************************************************)
\* the positions of the entries of a list that carry a code
EntriesWithCode(entries, code) ==
    {i \in 1..Len(entries) : entries[i].code = code}

UniqueCodes(entries) ==
    \A i, j \in 1..Len(entries) : entries[i].code = entries[j].code => i = j

\* the list the latest interaction was about, as main() loaded it
LoadedList ==
    IF last.op \in {"AddCountry", "RemoveCountry"}
    THEN last.loaded.countries ELSE last.loaded.manufacturers

\* the two reference lists as a run of main() whose reads get through loads them
NextCountries == load_countries(use_github, remote, localfile, TRUE)

NextManufacturers == load_manufacturers(use_github, remote, localfile, TRUE)

NextList ==
    IF last.op \in {"AddCountry", "RemoveCountry"}
    THEN NextCountries ELSE NextManufacturers

IsAdd == last.op \in {"AddCountry", "AddManufacturer"}

IsRemove == last.op \in {"RemoveCountry", "RemoveManufacturer"}

\* C5: the codes of each reference list stay unique, in memory and in both
\* backends, through every sequence of adds and removes; an add of a code an
\* entry of the list already carries is rejected with no save, and the list
\* keeps exactly one entry with that code.
C5_CodesStayUnique ==
    /\ \A f \in {countries_file, manufacturers_file} :
          /\ UniqueCodes(remote[f].content)
          /\ UniqueCodes(localfile[f].content)
    /\ UniqueCodes(last.loaded.countries)
    /\ UniqueCodes(last.loaded.manufacturers)
    /\ UniqueCodes(NextCountries)
    /\ UniqueCodes(NextManufacturers)
    /\ (IsAdd /\ EntriesWithCode(LoadedList, last.arg) # {}) =>
          /\ last.result \in {"error", "none"}
          /\ ~last.save.called
          /\ last.save.calls = <<>>
          /\ Cardinality(EntriesWithCode(LoadedList, last.arg)) = 1
    /\ (IsAdd /\ last.result = "success") =>
          /\ EntriesWithCode(LoadedList, last.arg) = {}
          /\ Cardinality(EntriesWithCode(last.save.data, last.arg)) = 1

\* "egy" typed as a new country, upper-cased to the seeded EGY and rejected,
\* after an earlier add went through
C5_Witness ==
    /\ last.op = "AddCountry"
    /\ last.arg = EGY
    /\ last.result = "error"
    /\ ~last.save.called
    /\ Len(last.loaded.countries) > Len(default_countries)

\* the entries of a list that do not carry a code, in order
Without(entries, code) == SelectSeq(entries, LAMBDA e : e.code # code)

UniqueTags(assets) ==
    \A i, j \in 1..Len(assets) : assets[i].tag = assets[j].tag => i = j

\* C1: no two records of the persisted asset collection, in the remote
\* document or in the local file, carry the same tag, after any sequence of
\* Generate Tags, Save All Tags, Cancel and Import Tags.
C1_PersistedTagsUnique ==
    /\ UniqueTags(remote[data_file].content)
    /\ UniqueTags(localfile[data_file].content)

\* C10: Generate Tags and Cancel leave every persisted collection unchanged;
\* the staged batch stays as it is through every interaction but a Cancel, a
\* Generate Tags that produces a batch and a Save All that reports success (a
\* Save All that reports failure keeps it); a Save All that reports success
\* persists, in both backends it writes, the asset list its interaction
\* loaded followed by the staged records in order, and clears the batch.
C10_StagedUntilSaved ==
    [][ /\ last'.op \in {"GenerateTags", "Cancel"} =>
              (remote' = remote /\ localfile' = localfile)
        /\ ~( \/ last'.op = "Cancel"
              \/ (last'.op = "GenerateTags" /\ last'.result = "success")
              \/ (last'.op = "SaveAllTags" /\ last'.result = "success") ) =>
              session' = session
        /\ last'.op = "Cancel" => session' = NoBatch
        /\ (last'.op = "GenerateTags" /\ last'.result = "success") =>
              /\ session'.staged
              /\ session'.asset_data_list # <<>>
        /\ (last'.op = "SaveAllTags" /\ last'.result = "success") =>
              /\ session.staged
              /\ session' = NoBatch
              /\ last'.save.data = last'.loaded.assets \o session.asset_data_list
              /\ localfile'[data_file]
                    = [state |-> "ok",
                       content |-> last'.loaded.assets \o session.asset_data_list]
              /\ use_github =>
                    remote'[data_file]
                        = [exists |-> TRUE,
                           content |-> last'.loaded.assets \o session.asset_data_list]
        /\ (last'.op = "SaveAllTags" /\ last'.result = "error") =>
              /\ session.staged
              /\ session' = session
        /\ (last'.op # "SaveAllTags" /\ last'.op # "ImportTags") =>
              (remote' = remote /\ localfile' = localfile)
      ]_vars

\* a Save All that failed has kept the batch staged while assets are persisted
C10_Witness ==
    /\ last.op = "SaveAllTags"
    /\ last.result = "error"
    /\ session.staged
    /\ last.loaded.assets # <<>>

(***************************************************************************)
(* Claim C9: reported failures (Spec)                                      *)
(***************************************************************************)
\* C9: an interaction that ends in a reported failure (a save that returns
\* failure, an import that reports failure, a duplicate code, an empty asset
\* name) leaves every collection as it was in both backends.
C9_FailureLeavesStoresUnchanged ==
    [][ last'.result = "error" => (remote' = remote /\ localfile' = localfile) ]_vars

(***************************************************************************)
(* Claim C11: the persisted asset collection only grows (SpecAssets)       *)
(***************************************************************************)
\* the records of a, in order, are among the records of b, in that order
IsSubsequence(a, b) ==
    \E f \in [1..Len(a) -> 1..Len(b)] :
        /\ \A i \in 1..Len(a) : b[f[i]] = a[i]
        /\ \A i, j \in 1..Len(a) : i < j => f[i] < f[j]

\* the persisted asset collection: the one load_assets reads
PersistedAssets(rem, loc) ==
    IF use_github THEN rem[data_file].content ELSE loc[data_file].content

\* C11: every asset record of the persisted collection is still there,
\* unmodified and in the same relative order, after every later Generate,
\* Save All, Cancel and Import, also when a load failed and returned the empty
\* list. Stated for the interactions that wrote nothing or whose writes all
\* went through, so that a loss is the loss of a save that reported success.
C11_PersistedOnlyGrows ==
    [][ (last'.save.called => last'.save.ok) =>
            IsSubsequence(PersistedAssets(remote, localfile),
                          PersistedAssets(remote', localfile'))
      ]_vars

(***************************************************************************)
(* Claim C12: two sessions on the asset collection (SpecTwo)               *)
(***************************************************************************)
Backends == {"remote", "local"}

ContentOf(b) ==
    IF b = "remote" THEN remote[data_file].content ELSE localfile[data_file].content

ReadBackend == IF use_github THEN "remote" ELSE "local"

\* the records session p added in memory to the list it loaded
Added(p) == SubSeq(fn.s[p].mem, Len(fn.s[p].loaded) + 1, Len(fn.s[p].mem))

InList(r, assets) == \E i \in 1..Len(assets) : assets[i] = r

\* the latest successful write to backend b is the one of session p's save
LastWriter(p, b) == fn.writer[b] = p /\ fn.s[p].fresh[b]

====
